---- MODULE Spec2Model ----
(***************************************************************************)
(* RTCP feedback packet codec (REMB, TMMBR, TMMBN) and the compact 3-byte  *)
(* bitrate encoding they share.                                            *)
(*                                                                         *)
(* Representation of Go values:                                            *)
(*   float32  [s, e, f]: the IEEE-754 sign bit, biased exponent (0..255)   *)
(*            and 23-bit fraction, i.e. the value's bit pattern.           *)
(*   uint32   <<hi, lo>>: the two 16-bit halves (TLC integers are 32-bit   *)
(*            signed, so a uint32 does not fit in one integer).            *)
(*   []byte   a sequence of 0..255; Go index i is TLA+ index i+1.          *)
(*   error    a string, "nil" for no error; "panic" for a run-time panic   *)
(*            (index out of range), which Go raises deterministically.     *)
(***************************************************************************)
EXTENDS Integers, Sequences, FiniteSets, TLC

VARIABLES
  pc,          \* the step last taken
  bitrate,     \* putBitrate / bitrateUnit: the float32 argument
  dst,         \* putBitrate: the destination bytes; loadBitrate: its argument
  perr,        \* putBitrate: the error returned
  decoded,     \* loadBitrate: the float32 returned
  redst,       \* putBitrate(decoded): error and bytes
  unit,        \* bitrateUnit: the suffix returned
  kind,        \* "REMB", "TMMBR" or "TMMBN"
  p,           \* the packet marshaled (lists held in pages, see Pages)
  buf,         \* Marshal / MarshalTo: the bytes; Unmarshal: its argument (in pages)
  err,         \* Marshal / MarshalTo: the error returned
  wrote,       \* MarshalTo: the count n returned
  q,           \* Unmarshal: the receiver afterwards (lists held in pages)
  uerr,        \* Unmarshal: the error returned
  entryCount,  \* Unmarshal: the number of list elements it derived
  looped,      \* Unmarshal: whether the list loop was reached
  buf2,        \* Marshal of q: the bytes (in pages)
  err2,        \* Marshal of q: the error
  str          \* String of q

vars == <<pc, bitrate, dst, perr, decoded, redst, unit,
          kind, p, buf, err, wrote, q, uerr, entryCount, looped, buf2, err2, str>>

codecVars == <<bitrate, dst, perr, decoded, redst, unit>>
packetVars == <<kind, p, buf, err, wrote, q, uerr, entryCount, looped, buf2, err2, str>>

(***************************************************************************)
(* Bounds of the model.                                                    *)
(***************************************************************************)
\* longest SSRC / entry list enumerated exhaustively
MaxEntries == 2
\* number of elements per page of a sequence held in a state variable
PageSize == 512

(***************************************************************************)
(* Program constants.                                                      *)
(***************************************************************************)
headerLength == 4
ssrcLength == 4
FormatTMMBR == 3
FormatTMMBN == 4
FormatREMB == 15
TypeTransportSpecificFeedback == 205
TypePayloadSpecificFeedback == 206
rtpVersion == 2

Pow2(n) == 2 ^ n

(***************************************************************************)
(* float32                                                                 *)
(***************************************************************************)
F32(s, e, f) == [s |-> s, e |-> e, f |-> f]

IsNaN(v) == v.e = 255 /\ v.f # 0

\* Position of a non-NaN float in the numeric order: the magnitude bits,
\* negated for a set sign bit (so that -0 and +0 coincide).
Key(v) == IF v.s = 0 THEN v.e * 8388608 + v.f ELSE 0 - (v.e * 8388608 + v.f)

\* Go's >= , < and == on float32 (false whenever an operand is NaN)
FloatGE(a, b) == ~IsNaN(a) /\ ~IsNaN(b) /\ Key(a) >= Key(b)
FloatLT(a, b) == ~IsNaN(a) /\ ~IsNaN(b) /\ Key(a) < Key(b)
FloatLE(a, b) == ~IsNaN(a) /\ ~IsNaN(b) /\ Key(a) =< Key(b)

\* round-half-to-even quotient of n by d
RoundDiv(n, d) ==
  LET qt == n \div d
      r == n % d
  IN IF 2 * r > d \/ (2 * r = d /\ qt % 2 = 1) THEN qt + 1 ELSE qt

\* bitrate /= 2.0 in float32
Half(v) ==
  IF v.e = 255 THEN v
  ELSE IF v.e >= 2 THEN [v EXCEPT !.e = @ - 1]
  ELSE IF v.e = 1 THEN
         LET m == RoundDiv(8388608 + v.f, 2)
         IN IF m >= 8388608 THEN [v EXCEPT !.e = 1, !.f = m - 8388608]
                            ELSE [v EXCEPT !.e = 0, !.f = m]
  ELSE [v EXCEPT !.f = RoundDiv(v.f, 2)]

\* bitrate /= 1000.0 in float32, for a normal bitrate >= 1000 (or +Inf):
\* x/1000 = (x/125)/8; the quotient by 125 is rounded to 24 bits, to nearest.
Div1000(v) ==
  IF v.e = 255 THEN v
  ELSE
    LET M == 8388608 + v.f
        k == IF M * 128 < 2097152000 THEN 7 ELSE 6
        r == RoundDiv(M * Pow2(k), 125)
    IN IF r >= 16777216
         THEN [v EXCEPT !.e = v.e - k - 2, !.f = 0]
         ELSE [v EXCEPT !.e = v.e - k - 3, !.f = r - 8388608]

\* FloorUint rounding up instead of down
FloorUintCeil(v) ==
  IF v.e = 0 /\ v.f = 0 THEN 0
  ELSE IF v.e < 127 THEN 1
  ELSE IF v.e =< 150
    THEN ((8388608 + v.f) + Pow2(150 - v.e) - 1) \div Pow2(150 - v.e)
  ELSE (8388608 + v.f) * Pow2(v.e - 150)

\* uint(math.Floor(float64(bitrate))) for a non-negative bitrate < 2^31
FloorUint(v) ==
  IF v.e < 127 THEN 0
  ELSE IF v.e =< 150 THEN (8388608 + v.f) \div Pow2(150 - v.e)
  ELSE (8388608 + v.f) * Pow2(v.e - 150)

\* float literals of the source
bitratemax == F32(0, 207, 8388544)
Zero32 == F32(0, 0, 0)
TwoPow18 == F32(0, 145, 0)
Thousand == F32(0, 136, 7995392)

(***************************************************************************)
(* uint32 and big-endian byte order                                        *)
(***************************************************************************)
U32(hi, lo) == <<hi, lo>>

\* binary.BigEndian.PutUint32
PutUint32(v) == <<v[1] \div 256, v[1] % 256, v[2] \div 256, v[2] % 256>>

\* binary.BigEndian.Uint32 of the four bytes at Go offset off of b
Uint32(b, off) == <<b[off + 1] * 256 + b[off + 2], b[off + 3] * 256 + b[off + 4]>>

\* binary.BigEndian.PutUint16 / Uint16
PutUint16(v) == <<v \div 256, v % 256>>
Uint16(b, off) == b[off + 1] * 256 + b[off + 2]

\* conversion of a non-negative int to uint16 and to byte
ToUint16(n) == n % 65536
ToByte(n) == n % 256

\* the first n values of f as a sequence (TLC then holds it as an array)
AsSeq(n, f) == SubSeq(f, 1, n)

Zeros(n) == AsSeq(n, [i \in 1..n |-> 0])

\* A long sequence is held in a state variable as the sequence of its pages
\* of PageSize elements (the last page may be shorter); Flat is the inverse.
Pages(x) ==
  LET np == (Len(x) + PageSize - 1) \div PageSize
  IN AsSeq(np, [j \in 1..np |->
                  SubSeq(x, (j - 1) * PageSize + 1,
                         IF j * PageSize < Len(x) THEN j * PageSize ELSE Len(x))])

Flat(pg) ==
  LET total == IF Len(pg) = 0 THEN 0 ELSE (Len(pg) - 1) * PageSize + Len(pg[Len(pg)])
  IN AsSeq(total, [i \in 1..total |->
                     pg[((i - 1) \div PageSize) + 1][((i - 1) % PageSize) + 1]])

(***************************************************************************)
(* Errors                                                                  *)
(***************************************************************************)
errInvalidBitrate == "errInvalidBitrate"
errPacketTooShort == "errPacketTooShort"
errWrongMarshalSize == "errWrongMarshalSize"
errBadVersion == "errBadVersion"
errWrongPadding == "errWrongPadding"
errWrongFeedbackType == "errWrongFeedbackType"
errWrongPayloadType == "errWrongPayloadType"
errHeaderTooSmall == "errHeaderTooSmall"
errSSRCMustBeZero == "errSSRCMustBeZero"
errMissingREMBidentifier == "errMissingREMBidentifier"
errSSRCNumAndLengthMismatch == "errSSRCNumAndLengthMismatch"
errBadLength == "errBadLength"
errWrongType == "errWrongType"
errInvalidHeader == "errInvalidHeader"
panic == "panic"

(***************************************************************************)
(* Bitrate codec                                                           *)
(***************************************************************************)
\* bitwise OR of two bytes
RECURSIVE BitOr(_, _)
BitOr(a, b) ==
  IF a = 0 THEN b
  ELSE IF b = 0 THEN a
  ELSE 2 * BitOr(a \div 2, b \div 2) + (IF a % 2 = 1 \/ b % 2 = 1 THEN 1 ELSE 0)

\* putClamp with the ceiling one binade too low
putClampBelow(b) == IF FloatGE(b, bitratemax) THEN F32(0, 206, 8388544) ELSE b

\* putBitrate: the clamp to bitratemax
putClamp(b) == IF FloatGE(b, bitratemax) THEN bitratemax ELSE b

\* putBitrate: the halving loop; yields <<bitrate, exp>> at loop exit
RECURSIVE putLoop(_, _)
putLoop(b, exp) ==
  IF FloatGE(b, TwoPow18) THEN putLoop(Half(b), exp + 1) ELSE <<b, exp>>

\* putBitrate clamping a negative bitrate to zero instead of failing
putBitrateClampNegative(b, dest) ==
  LET clamped == IF FloatLT(putClamp(b), Zero32) THEN Zero32 ELSE putClamp(b)
      l == putLoop(clamped, 0)
      exp == l[2]
      mantissa == FloorUint(l[1])
  IN IF exp >= 64 THEN [err |-> errInvalidBitrate, buf |-> dest]
     ELSE [err |-> "nil",
           buf |-> [dest EXCEPT ![1] = BitOr(ToByte(exp * 4), ToByte(mantissa \div 65536)),
                                ![2] = ToByte(mantissa \div 256),
                                ![3] = ToByte(mantissa)]]

\* putBitrate(bitrate, buf): the error and the destination bytes afterwards
putBitrate(b, dest) ==
  LET clamped == putClamp(b)
      l == putLoop(clamped, 0)
      exp == l[2]
      mantissa == FloorUint(l[1])
  IN IF FloatLT(clamped, Zero32) THEN [err |-> errInvalidBitrate, buf |-> dest]
     ELSE IF exp >= 64 THEN [err |-> errInvalidBitrate, buf |-> dest]
     ELSE [err |-> "nil",
           buf |-> [dest EXCEPT ![1] = BitOr(ToByte(exp * 4), ToByte(mantissa \div 65536)),
                                ![2] = ToByte(mantissa \div 256),
                                ![3] = ToByte(mantissa)]]

\* the exponent putBitrate chooses for a bitrate: exp at the exit of its loop
putExp(b) == putLoop(putClamp(b), 0)[2]

mantissamax == 8388607

\* loadBitrate: the normalisation loop on the uint8 exponent and the mantissa
RECURSIVE loadLoop(_, _)
loadLoop(exp, mantissa) ==
  IF (mantissa \div (mantissamax + 1)) % 2 = 0
    THEN loadLoop((exp + 255) % 256, mantissa * 2)
    ELSE <<exp, mantissa>>

\* loadBitrate biasing the exponent by 127 + 22
loadBitrateBias22(b, off) ==
  LET exp0 == ((b[off + 1] \div 4) + 127 + 22) % 256
      mantissa0 == (b[off + 1] % 4) * 65536 + b[off + 2] * 256 + b[off + 3]
      n == IF mantissa0 # 0 THEN loadLoop(exp0, mantissa0) ELSE <<exp0, mantissa0>>
  IN F32(0, n[1], n[2] % (mantissamax + 1))

\* loadBitrate(buf) of the three bytes at Go offset off of b
loadBitrate(b, off) ==
  LET exp0 == ((b[off + 1] \div 4) + 127 + 23) % 256
      mantissa0 == (b[off + 1] % 4) * 65536 + b[off + 2] * 256 + b[off + 3]
      n == IF mantissa0 # 0 THEN loadLoop(exp0, mantissa0) ELSE <<exp0, mantissa0>>
  IN F32(0, n[1], n[2] % (mantissamax + 1))

bitUnits == <<"b", "Kb", "Mb", "Gb", "Tb", "Pb", "Eb">>

\* bitrateUnit: the division loop; yields powers at loop exit
RECURSIVE unitLoop(_, _)
unitLoop(b, powers) ==
  IF FloatGE(b, Thousand) /\ powers < Len(bitUnits)
    THEN unitLoop(Div1000(b), powers + 1)
    ELSE powers

\* bitrateUnit(bitrate): the suffix, or panic when the index leaves the table
bitrateUnit(b) ==
  LET powers == unitLoop(b, 0)
  IN IF powers < Len(bitUnits) THEN bitUnits[powers + 1] ELSE panic

(***************************************************************************)
(* Common RTCP header                                                      *)
(***************************************************************************)
\* Header.Marshal: the four header bytes
Header_Marshal(h) ==
  IF h.Count > 31 THEN [err |-> errInvalidHeader, buf |-> <<>>]
  ELSE [err |-> "nil",
        buf |-> <<rtpVersion * 64 + (IF h.Padding THEN 32 ELSE 0) + h.Count,
                  h.Type>> \o PutUint16(h.Length)]

\* Header.Unmarshal
Header_Unmarshal(rawPacket) ==
  IF Len(rawPacket) < headerLength
    THEN [err |-> errPacketTooShort, h |-> <<>>]
  ELSE IF rawPacket[1] \div 64 # rtpVersion
    THEN [err |-> errBadVersion, h |-> <<>>]
  ELSE [err |-> "nil",
        h |-> [Padding |-> (rawPacket[1] \div 32) % 2 = 1,
               Count |-> rawPacket[1] % 32,
               Type |-> rawPacket[2],
               Length |-> Uint16(rawPacket, 2)]]

(***************************************************************************)
(* TMMBN                                                                   *)
(***************************************************************************)
TMMBN_Zero == [SenderSSRC |-> U32(0, 0), Entries |-> <<>>]

TMMBN_MarshalSize(pk) ==
  headerLength + ssrcLength * 2 + Len(pk.Entries) * (2 * ssrcLength)

\* Header with the length in words, not words minus one
TMMBN_HeaderWords(pk) ==
  [Padding |-> FALSE, Count |-> FormatTMMBN, Type |-> TypeTransportSpecificFeedback,
   Length |-> ToUint16(TMMBN_MarshalSize(pk) \div 4)]

TMMBN_Header(pk) ==
  [Padding |-> FALSE, Count |-> FormatTMMBN, Type |-> TypeTransportSpecificFeedback,
   Length |-> ToUint16((TMMBN_MarshalSize(pk) \div 4) - 1)]

\* the entry written with the bitrate before the media SSRC
TMMBN_EntryBytesSwapped(entry) ==
  putBitrate(entry.Bitrate, <<0, 0, 0, 0>>).buf \o PutUint32(entry.MediaSSRC)

\* TMMBN.Marshal: one pass of the entry loop, the 8 bytes of entry i
\* (putBitrate is handed the rest of the zeroed body; the overhead byte stays
\* as make() left it)
TMMBN_EntryBytes(entry) ==
  PutUint32(entry.MediaSSRC) \o putBitrate(entry.Bitrate, <<0, 0, 0, 0>>).buf

TMMBN_Marshal(pk) ==
  LET packetSize == TMMBN_MarshalSize(pk)
      hm == Header_Marshal(TMMBN_Header(pk))
      n == Len(pk.Entries)
      bad == {i \in 1..n : putBitrate(pk.Entries[i].Bitrate, <<0, 0, 0, 0>>).err # "nil"}
      blocks == AsSeq(n, [i \in 1..n |-> TMMBN_EntryBytes(pk.Entries[i])])
      head == hm.buf \o PutUint32(pk.SenderSSRC) \o PutUint32(U32(0, 0))
  IN IF hm.err # "nil" THEN [buf |-> <<>>, err |-> hm.err]
     ELSE IF bad # {} THEN [buf |-> <<>>, err |-> errInvalidBitrate]
     ELSE [buf |-> AsSeq(packetSize, [k \in 1..packetSize |->
                      IF k =< headerLength + ssrcLength * 2 THEN head[k]
                      ELSE LET o == k - 1 - (headerLength + ssrcLength * 2)
                           IN blocks[(o \div (2 * ssrcLength)) + 1][(o % (2 * ssrcLength)) + 1]]),
           err |-> "nil"]

\* TMMBN.Unmarshal into the receiver recv: the error, the receiver afterwards,
\* entryCount, and whether the entry loop was reached
TMMBN_Unmarshal(recv, rawPacket) ==
  LET hu == Header_Unmarshal(rawPacket)
      header == hu.h
      expectedSize == ToUint16(ToUint16(header.Length + 1) * 4)
      bodyLen == Len(rawPacket) - headerLength
      count == ToUint16(header.Length + 65536 - 2) \div 2
      offset(i) == ssrcLength * 2 + i * (2 * ssrcLength)
      \* pass i reads body[offset:offset+4] and body[offset+4:offset+7];
      \* offsets grow with i, so pass i is reached exactly when it is readable
      \* or the first unreadable one
      readable(i) == offset(i) + ssrcLength + 3 =< bodyLen
      entries == AsSeq(count, [j \in 1..count |->
                    IF readable(j - 1)
                      THEN [MediaSSRC |-> Uint32(rawPacket, headerLength + offset(j - 1)),
                            Bitrate |-> loadBitrate(rawPacket, headerLength + offset(j - 1) + ssrcLength)]
                      ELSE [MediaSSRC |-> U32(0, 0), Bitrate |-> Zero32]])
      done == [recv EXCEPT !.SenderSSRC = Uint32(rawPacket, headerLength),
                           !.Entries = entries]
  IN IF Len(rawPacket) < headerLength + ssrcLength * 2
       THEN [err |-> errPacketTooShort, pkt |-> recv, entryCount |-> 0, loop |-> FALSE]
     ELSE IF hu.err # "nil"
       THEN [err |-> hu.err, pkt |-> recv, entryCount |-> 0, loop |-> FALSE]
     ELSE IF Len(rawPacket) < expectedSize
       THEN [err |-> errBadLength, pkt |-> recv, entryCount |-> 0, loop |-> FALSE]
     ELSE IF header.Type # TypeTransportSpecificFeedback \/ header.Count # FormatTMMBN
       THEN [err |-> errWrongType, pkt |-> recv, entryCount |-> 0, loop |-> FALSE]
     ELSE IF \E i \in 0..(count - 1) : ~readable(i)
       THEN [err |-> panic, pkt |-> done, entryCount |-> count, loop |-> TRUE]
     ELSE [err |-> "nil", pkt |-> done, entryCount |-> count, loop |-> TRUE]

\* TMMBN.String: the unit printed for each entry, or panic
TMMBN_String(pk) ==
  LET units == AsSeq(Len(pk.Entries),
                     [i \in 1..Len(pk.Entries) |-> bitrateUnit(pk.Entries[i].Bitrate)])
  IN IF \E i \in 1..Len(pk.Entries) : units[i] = panic THEN panic
     ELSE [SenderSSRC |-> pk.SenderSSRC,
           entries |-> AsSeq(Len(pk.Entries), [i \in 1..Len(pk.Entries) |->
                          [media |-> pk.Entries[i].MediaSSRC,
                           bitrate |-> pk.Entries[i].Bitrate,
                           unit |-> units[i]]])]

TMMBN_DestinationSSRC(pk) ==
  AsSeq(Len(pk.Entries), [i \in 1..Len(pk.Entries) |-> pk.Entries[i].MediaSSRC])

(***************************************************************************)
(* TMMBR                                                                   *)
(***************************************************************************)
TMMBR_Zero == [SenderSSRC |-> U32(0, 0), Entries |-> <<>>]

TMMBR_MarshalSize(pk) ==
  headerLength + ssrcLength * 2 + Len(pk.Entries) * (2 * ssrcLength)

TMMBR_Header(pk) ==
  [Padding |-> FALSE, Count |-> FormatTMMBR, Type |-> TypeTransportSpecificFeedback,
   Length |-> ToUint16((TMMBR_MarshalSize(pk) \div 4) - 1)]

\* TMMBR.Marshal: one pass of the entry loop, the 8 bytes of entry i
\* (putBitrate is handed the rest of the zeroed body; the overhead byte stays
\* as make() left it)
TMMBR_EntryBytes(entry) ==
  PutUint32(entry.MediaSSRC) \o putBitrate(entry.Bitrate, <<0, 0, 0, 0>>).buf

TMMBR_Marshal(pk) ==
  LET packetSize == TMMBR_MarshalSize(pk)
      hm == Header_Marshal(TMMBR_Header(pk))
      n == Len(pk.Entries)
      bad == {i \in 1..n : putBitrate(pk.Entries[i].Bitrate, <<0, 0, 0, 0>>).err # "nil"}
      blocks == AsSeq(n, [i \in 1..n |-> TMMBR_EntryBytes(pk.Entries[i])])
      head == hm.buf \o PutUint32(pk.SenderSSRC) \o PutUint32(U32(0, 0))
  IN IF hm.err # "nil" THEN [buf |-> <<>>, err |-> hm.err]
     ELSE IF bad # {} THEN [buf |-> <<>>, err |-> errInvalidBitrate]
     ELSE [buf |-> AsSeq(packetSize, [k \in 1..packetSize |->
                      IF k =< headerLength + ssrcLength * 2 THEN head[k]
                      ELSE LET o == k - 1 - (headerLength + ssrcLength * 2)
                           IN blocks[(o \div (2 * ssrcLength)) + 1][(o % (2 * ssrcLength)) + 1]]),
           err |-> "nil"]

\* TMMBR.Unmarshal into the receiver recv: the error, the receiver afterwards,
\* entryCount, and whether the entry loop was reached
TMMBR_Unmarshal(recv, rawPacket) ==
  LET hu == Header_Unmarshal(rawPacket)
      header == hu.h
      expectedSize == ToUint16(ToUint16(header.Length + 1) * 4)
      bodyLen == Len(rawPacket) - headerLength
      count == ToUint16(header.Length + 65536 - 2) \div 2
      offset(i) == ssrcLength * 2 + i * (2 * ssrcLength)
      \* pass i reads body[offset:offset+4] and body[offset+4:offset+7];
      \* offsets grow with i, so pass i is reached exactly when it is readable
      \* or the first unreadable one
      readable(i) == offset(i) + ssrcLength + 3 =< bodyLen
      entries == AsSeq(count, [j \in 1..count |->
                    IF readable(j - 1)
                      THEN [MediaSSRC |-> Uint32(rawPacket, headerLength + offset(j - 1)),
                            Bitrate |-> loadBitrate(rawPacket, headerLength + offset(j - 1) + ssrcLength)]
                      ELSE [MediaSSRC |-> U32(0, 0), Bitrate |-> Zero32]])
      done == [recv EXCEPT !.SenderSSRC = Uint32(rawPacket, headerLength),
                           !.Entries = entries]
  IN IF Len(rawPacket) < headerLength + ssrcLength * 2
       THEN [err |-> errPacketTooShort, pkt |-> recv, entryCount |-> 0, loop |-> FALSE]
     ELSE IF hu.err # "nil"
       THEN [err |-> hu.err, pkt |-> recv, entryCount |-> 0, loop |-> FALSE]
     ELSE IF Len(rawPacket) < expectedSize
       THEN [err |-> errBadLength, pkt |-> recv, entryCount |-> 0, loop |-> FALSE]
     ELSE IF header.Type # TypeTransportSpecificFeedback \/ header.Count # FormatTMMBR
       THEN [err |-> errWrongType, pkt |-> recv, entryCount |-> 0, loop |-> FALSE]
     ELSE IF \E i \in 0..(count - 1) : ~readable(i)
       THEN [err |-> panic, pkt |-> done, entryCount |-> count, loop |-> TRUE]
     ELSE [err |-> "nil", pkt |-> done, entryCount |-> count, loop |-> TRUE]

\* TMMBR.String: the unit printed for each entry, or panic
TMMBR_String(pk) ==
  LET units == AsSeq(Len(pk.Entries),
                     [i \in 1..Len(pk.Entries) |-> bitrateUnit(pk.Entries[i].Bitrate)])
  IN IF \E i \in 1..Len(pk.Entries) : units[i] = panic THEN panic
     ELSE [SenderSSRC |-> pk.SenderSSRC,
           entries |-> AsSeq(Len(pk.Entries), [i \in 1..Len(pk.Entries) |->
                          [media |-> pk.Entries[i].MediaSSRC,
                           bitrate |-> pk.Entries[i].Bitrate,
                           unit |-> units[i]]])]

TMMBR_DestinationSSRC(pk) ==
  AsSeq(Len(pk.Entries), [i \in 1..Len(pk.Entries) |-> pk.Entries[i].MediaSSRC])

(***************************************************************************)
(* REMB (ReceiverEstimatedMaximumBitrate)                                  *)
(***************************************************************************)
REMB_Zero == [SenderSSRC |-> U32(0, 0), Bitrate |-> Zero32, SSRCs |-> <<>>]

REMB_MarshalSize(pk) == 20 + 4 * Len(pk.SSRCs)

REMB_Header(pk) ==
  [Padding |-> FALSE, Count |-> FormatREMB, Type |-> TypePayloadSpecificFeedback,
   Length |-> ToUint16((REMB_MarshalSize(pk) \div 4) - 1)]

\* MarshalTo(buf): n, the error and the caller's buffer afterwards
REMB_MarshalTo(pk, dest) ==
  LET size == REMB_MarshalSize(pk)
      length == ToUint16((REMB_MarshalSize(pk) \div 4) - 1)
      fixed == <<143, 206>> \o PutUint16(length) \o PutUint32(pk.SenderSSRC)
                 \o PutUint32(U32(0, 0)) \o <<82, 69, 77, 66>>
                 \o <<ToByte(Len(pk.SSRCs))>>
      pb == putBitrate(pk.Bitrate, SubSeq(dest, 18, 20))
  IN IF Len(dest) < size THEN [n |-> 0, err |-> errPacketTooShort, buf |-> dest]
     ELSE IF pb.err # "nil"
       THEN [n |-> 0, err |-> pb.err,
             buf |-> AsSeq(Len(dest),
                           [k \in 1..Len(dest) |-> IF k =< 17 THEN fixed[k] ELSE dest[k]])]
     ELSE [n |-> 20 + 4 * Len(pk.SSRCs), err |-> "nil",
           buf |-> AsSeq(Len(dest), [k \in 1..Len(dest) |->
                      IF k =< 17 THEN fixed[k]
                      ELSE IF k =< 20 THEN pb.buf[k - 17]
                      ELSE IF k =< size
                        THEN PutUint32(pk.SSRCs[((k - 21) \div 4) + 1])[((k - 21) % 4) + 1]
                      ELSE dest[k]])]

REMB_Marshal(pk) ==
  LET mt == REMB_MarshalTo(pk, Zeros(REMB_MarshalSize(pk)))
  IN IF mt.err # "nil" THEN [buf |-> <<>>, err |-> mt.err]
     ELSE IF mt.n # Len(mt.buf) THEN [buf |-> <<>>, err |-> errWrongMarshalSize]
     ELSE [buf |-> mt.buf, err |-> "nil"]

\* REMB Unmarshal checking the payload type before the feedback format
REMB_UnmarshalTypeFirst(recv, b) ==
  LET version == b[1] \div 64
      padding == (b[1] \div 32) % 2
      fmtVal == b[1] % 32
      length == Uint16(b, 2)
      size == ToUint16(ToUint16(length + 1) * 4)
      withSender == [recv EXCEPT !.SenderSSRC = Uint32(b, 4)]
      media == Uint32(b, 8)
      num == b[17]
      passes == IF size > 20 THEN (size - 20 + 3) \div 4 ELSE 0
      done == [withSender EXCEPT !.Bitrate = loadBitrate(b, 17),
                                 !.SSRCs = AsSeq(passes, [i \in 1..passes |-> Uint32(b, 20 + 4 * (i - 1))])]
      none == [err |-> "nil", pkt |-> recv, entryCount |-> 0, loop |-> FALSE]
  IN IF Len(b) < 20 THEN [none EXCEPT !.err = errPacketTooShort]
     ELSE IF version # 2 THEN [none EXCEPT !.err = errBadVersion]
     ELSE IF padding # 0 THEN [none EXCEPT !.err = errWrongPadding]
     ELSE IF b[2] # 206 THEN [none EXCEPT !.err = errWrongPayloadType]
     ELSE IF fmtVal # 15 THEN [none EXCEPT !.err = errWrongFeedbackType]
     ELSE IF size < 20 THEN [none EXCEPT !.err = errHeaderTooSmall]
     ELSE IF Len(b) < size THEN [none EXCEPT !.err = errPacketTooShort]
     ELSE IF media # U32(0, 0)
       THEN [none EXCEPT !.err = errSSRCMustBeZero, !.pkt = withSender]
     ELSE IF SubSeq(b, 13, 16) # <<82, 69, 77, 66>>
       THEN [none EXCEPT !.err = errMissingREMBidentifier, !.pkt = withSender]
     ELSE IF size # 20 + 4 * num
       THEN [none EXCEPT !.err = errSSRCNumAndLengthMismatch, !.pkt = withSender]
     ELSE [err |-> "nil", pkt |-> done, entryCount |-> passes, loop |-> TRUE]

\* Unmarshal into the receiver recv: the error, the receiver afterwards and
\* the number of passes of the SSRC loop
REMB_Unmarshal(recv, b) ==
  LET version == b[1] \div 64
      padding == (b[1] \div 32) % 2
      fmtVal == b[1] % 32
      length == Uint16(b, 2)
      size == ToUint16(ToUint16(length + 1) * 4)
      withSender == [recv EXCEPT !.SenderSSRC = Uint32(b, 4)]
      media == Uint32(b, 8)
      num == b[17]
      passes == IF size > 20 THEN (size - 20 + 3) \div 4 ELSE 0
      done == [withSender EXCEPT !.Bitrate = loadBitrate(b, 17),
                                 !.SSRCs = AsSeq(passes, [i \in 1..passes |-> Uint32(b, 20 + 4 * (i - 1))])]
      none == [err |-> "nil", pkt |-> recv, entryCount |-> 0, loop |-> FALSE]
  IN IF Len(b) < 20 THEN [none EXCEPT !.err = errPacketTooShort]
     ELSE IF version # 2 THEN [none EXCEPT !.err = errBadVersion]
     ELSE IF padding # 0 THEN [none EXCEPT !.err = errWrongPadding]
     ELSE IF fmtVal # 15 THEN [none EXCEPT !.err = errWrongFeedbackType]
     ELSE IF b[2] # 206 THEN [none EXCEPT !.err = errWrongPayloadType]
     ELSE IF size < 20 THEN [none EXCEPT !.err = errHeaderTooSmall]
     ELSE IF Len(b) < size THEN [none EXCEPT !.err = errPacketTooShort]
     ELSE IF media # U32(0, 0)
       THEN [none EXCEPT !.err = errSSRCMustBeZero, !.pkt = withSender]
     ELSE IF SubSeq(b, 13, 16) # <<82, 69, 77, 66>>
       THEN [none EXCEPT !.err = errMissingREMBidentifier, !.pkt = withSender]
     ELSE IF size # 20 + 4 * num
       THEN [none EXCEPT !.err = errSSRCNumAndLengthMismatch, !.pkt = withSender]
     ELSE [err |-> "nil", pkt |-> done, entryCount |-> passes, loop |-> TRUE]

\* String: the unit printed for the bitrate, or panic
REMB_String(pk) ==
  LET u == bitrateUnit(pk.Bitrate)
  IN IF u = panic THEN panic
     ELSE [SenderSSRC |-> pk.SenderSSRC, bitrate |-> pk.Bitrate, unit |-> u]

REMB_DestinationSSRC(pk) == pk.SSRCs

(***************************************************************************)
(* Dispatch on the packet kind                                             *)
(***************************************************************************)
Kinds == {"REMB", "TMMBR", "TMMBN"}

ZeroPacket(k) ==
  IF k = "REMB" THEN REMB_Zero ELSE IF k = "TMMBR" THEN TMMBR_Zero ELSE TMMBN_Zero

MarshalSize(k, pk) ==
  IF k = "REMB" THEN REMB_MarshalSize(pk)
  ELSE IF k = "TMMBR" THEN TMMBR_MarshalSize(pk) ELSE TMMBN_MarshalSize(pk)

Header(k, pk) ==
  IF k = "REMB" THEN REMB_Header(pk)
  ELSE IF k = "TMMBR" THEN TMMBR_Header(pk) ELSE TMMBN_Header(pk)

MarshalOf(k, pk) ==
  IF k = "REMB" THEN REMB_Marshal(pk)
  ELSE IF k = "TMMBR" THEN TMMBR_Marshal(pk) ELSE TMMBN_Marshal(pk)

UnmarshalOf(k, recv, b) ==
  IF k = "REMB" THEN REMB_Unmarshal(recv, b)
  ELSE IF k = "TMMBR" THEN TMMBR_Unmarshal(recv, b) ELSE TMMBN_Unmarshal(recv, b)

StringOf(k, pk) ==
  IF k = "REMB" THEN REMB_String(pk)
  ELSE IF k = "TMMBR" THEN TMMBR_String(pk) ELSE TMMBN_String(pk)

DestinationSSRC(k, pk) ==
  IF k = "REMB" THEN REMB_DestinationSSRC(pk)
  ELSE IF k = "TMMBR" THEN TMMBR_DestinationSSRC(pk) ELSE TMMBN_DestinationSSRC(pk)

\* the bitrates a packet carries, in order
Bitrates(k, pk) ==
  IF k = "REMB" THEN <<pk.Bitrate>>
  ELSE AsSeq(Len(pk.Entries), [i \in 1..Len(pk.Entries) |-> pk.Entries[i].Bitrate])

\* a packet as held in a state variable, and back
Stored(k, pk) ==
  IF k = "REMB" THEN [pk EXCEPT !.SSRCs = Pages(@)] ELSE [pk EXCEPT !.Entries = Pages(@)]
Loaded(k, st) ==
  IF k = "REMB" THEN [st EXCEPT !.SSRCs = Flat(@)] ELSE [st EXCEPT !.Entries = Flat(@)]

\* the number of list elements of a packet
Count(k, pk) == IF k = "REMB" THEN Len(pk.SSRCs) ELSE Len(pk.Entries)

(***************************************************************************)
(* Inputs                                                                  *)
(***************************************************************************)
\* bitrates handed to the codec: zero, subnormals, values below 1, around
\* 2^18, the values of the tests, around 10^21, around the ceiling, the
\* largest finite float and +Inf, of both signs (NaN is left out)
ExpInputs == {0, 1, 126, 127, 128, 136, 144, 145, 150, 196, 197, 206, 207, 208, 254, 255}
FracInputs == {0, 1, 538559, 538560, 4194304, 8388544, 8388545, 8388607}
BitrateInputs ==
  {F32(s, e, f) : s \in {0, 1}, e \in ExpInputs, f \in FracInputs} \ {v \in
     {F32(s, e, f) : s \in {0, 1}, e \in {255}, f \in FracInputs} : IsNaN(v)}

IsNegative(v) == FloatLT(v, Zero32)

\* wire bytes handed to loadBitrate
WireInputs ==
  {<<e6 * 4 + (m \div 65536), (m \div 256) % 256, m % 256>> :
     e6 \in {0, 1, 6, 47, 62, 63}, m \in {0, 1, 2, 1000, 131072, 139486, 139487, 262143}}

\* the bytes a putBitrate destination holds before the call
DstInit == <<170, 85, 255>>

\* bitrates, SSRCs and lists of the packets marshaled
PacketBitrates ==
  {Zero32, F32(0, 127, 0), F32(0, 150, 538559), F32(0, 254, 8388607), F32(1, 127, 0)}
SenderSSRCs == {U32(0, 1), U32(65535, 65535)}
MediaSSRCs == {U32(0, 1000), U32(18548, 60694)}

SeqsUpTo(S, m) == UNION {[1..l -> S] : l \in 0..m}

Entries == {[MediaSSRC |-> s, Bitrate |-> b] : s \in MediaSSRCs, b \in PacketBitrates}

Packets(k) ==
  IF k = "REMB"
    THEN {[SenderSSRC |-> s, Bitrate |-> b, SSRCs |-> l] :
            s \in SenderSSRCs, b \in PacketBitrates, l \in SeqsUpTo(MediaSSRCs, MaxEntries)}
    ELSE {[SenderSSRC |-> s, Entries |-> l] :
            s \in SenderSSRCs, l \in SeqsUpTo(Entries, MaxEntries)}

\* raw buffers handed to Unmarshal: a prefix of a template whose first four
\* bytes are replaced by a chosen header
Templates ==
  {<<143, 206, 0, 6, 0, 0, 0, 1, 0, 0, 0, 0, 82, 69, 77, 66, 2, 26, 32, 223,
     72, 116, 237, 22, 0, 0, 3, 232>>,
   <<132, 205, 0, 6, 0, 0, 0, 1, 0, 0, 0, 0, 72, 116, 237, 22, 26, 32, 223, 0,
     0, 0, 3, 232, 255, 255, 255, 0>>,
   <<132, 205, 0, 6, 0, 0, 0, 1, 0, 0, 0, 1, 82, 69, 77, 66, 0, 0, 0, 0,
     255, 255, 255, 255, 1, 0, 0, 7>>}
RawLens == {3, 11, 12, 16, 20, 24, 28}
RawFirst == {132, 131, 143, 68, 164}
RawType == {205, 206}
RawLength == {2, 3, 4, 5, 6, 7}
\* length fields at which the 16-bit arithmetic on the length wraps
WrapLength == {0, 1, 16388, 16390, 65535}
WrapLens == {12, 20, 28}

RawBuffer(t, l, b0, b1, len) ==
  AsSeq(l, [i \in 1..l |-> IF i = 1 THEN b0 ELSE IF i = 2 THEN b1
                           ELSE IF i = 3 THEN len \div 256 ELSE IF i = 4 THEN len % 256
                           ELSE t[i]])

\* packets whose list is as long as the one-byte count field of a REMB and
\* the 16-bit length field of the header can express, and one element longer
LargeCounts(k) == IF k = "REMB" THEN {255, 256, 65531, 65532} ELSE {32766, 32767, 32768}

LargePacket(k, c) ==
  IF k = "REMB"
    THEN [SenderSSRC |-> U32(0, 1), Bitrate |-> F32(0, 150, 538560),
          SSRCs |-> AsSeq(c, [i \in 1..c |-> U32(i \div 65536, i % 65536)])]
    ELSE [SenderSSRC |-> U32(0, 1),
          Entries |-> AsSeq(c, [i \in 1..c |-> [MediaSSRC |-> U32(i \div 65536, i % 65536),
                                                 Bitrate |-> F32(0, 150, 538560)]])]

RawBuffers ==
  {RawBuffer(t, l, b0, b1, len) :
     t \in Templates, l \in RawLens, b0 \in RawFirst, b1 \in RawType, len \in RawLength}
  \cup
  {RawBuffer(t, l, b0, b1, len) :
     t \in {tt \in Templates : tt[13] = 82}, l \in WrapLens, b0 \in {132, 131, 143},
     b1 \in RawType, len \in WrapLength}

(***************************************************************************)
(* The state machine: each action is one call                              *)
(***************************************************************************)
Init ==
  /\ pc = "start"
  /\ bitrate = Zero32
  /\ dst = DstInit
  /\ perr = "nil"
  /\ decoded = Zero32
  /\ redst = [err |-> "nil", buf |-> DstInit]
  /\ unit = "b"
  /\ kind = "REMB"
  /\ p = REMB_Zero
  /\ buf = <<>>
  /\ err = "nil"
  /\ wrote = 0
  /\ q = REMB_Zero
  /\ uerr = "nil"
  /\ entryCount = 0
  /\ looped = FALSE
  /\ buf2 = <<>>
  /\ err2 = "nil"
  /\ str = <<>>

\* err = putBitrate(v, dst)
PutBitrate ==
  /\ pc = "start"
  /\ \E v \in BitrateInputs :
       /\ bitrate' = v
       /\ dst' = putBitrate(v, dst).buf
       /\ perr' = putBitrate(v, dst).err
  /\ pc' = "put"
  /\ UNCHANGED <<decoded, redst, unit>>
  /\ UNCHANGED packetVars

\* decoded = loadBitrate(dst) of the bytes putBitrate wrote
LoadBitrate ==
  /\ pc = "put"
  /\ perr = "nil"
  /\ decoded' = loadBitrate(dst, 0)
  /\ pc' = "loaded"
  /\ UNCHANGED <<bitrate, dst, perr, redst, unit>>
  /\ UNCHANGED packetVars

\* decoded = loadBitrate(b) of bytes off the wire
LoadWire ==
  /\ pc = "start"
  /\ \E b \in WireInputs :
       /\ dst' = b
       /\ decoded' = loadBitrate(b, 0)
  /\ pc' = "loadedWire"
  /\ UNCHANGED <<bitrate, perr, redst, unit>>
  /\ UNCHANGED packetVars

\* putBitrate(decoded, fresh destination)
RePutBitrate ==
  /\ pc \in {"loaded", "loadedWire"}
  /\ redst' = putBitrate(decoded, DstInit)
  /\ pc' = IF pc = "loaded" THEN "reput" ELSE "reputWire"
  /\ UNCHANGED <<bitrate, dst, perr, decoded, unit>>
  /\ UNCHANGED packetVars

\* unit = bitrateUnit(v) of a caller's non-negative bitrate
BitrateUnit ==
  /\ pc = "start"
  /\ \E v \in {b \in BitrateInputs : ~IsNegative(b)} :
       /\ bitrate' = v
       /\ unit' = bitrateUnit(v)
  /\ pc' = "unit"
  /\ UNCHANGED <<dst, perr, decoded, redst>>
  /\ UNCHANGED packetVars

\* unit = bitrateUnit(decoded) of a bitrate loadBitrate returned
BitrateUnitDecoded ==
  /\ pc \in {"loaded", "loadedWire"}
  /\ unit' = bitrateUnit(decoded)
  /\ pc' = "unitDecoded"
  /\ UNCHANGED <<bitrate, dst, perr, decoded, redst>>
  /\ UNCHANGED packetVars

\* buf, err = p.Marshal()
Marshal ==
  /\ pc = "start"
  /\ \E k \in Kinds : \E pk \in Packets(k) :
       /\ kind' = k
       /\ p' = Stored(k, pk)
       /\ buf' = Pages(MarshalOf(k, pk).buf)
       /\ err' = MarshalOf(k, pk).err
       /\ q' = ZeroPacket(k)
  /\ pc' = "marshaled"
  /\ UNCHANGED <<wrote, uerr, entryCount, looped, buf2, err2, str>>
  /\ UNCHANGED codecVars

\* buf, err = p.Marshal() of a packet with a very long list
MarshalLarge ==
  /\ pc = "start"
  /\ \E k \in Kinds : \E c \in LargeCounts(k) :
       LET r == MarshalOf(k, LargePacket(k, c))
       IN /\ kind' = k
          /\ p' = Stored(k, LargePacket(k, c))
          /\ buf' = Pages(r.buf)
          /\ err' = r.err
          /\ q' = ZeroPacket(k)
  /\ pc' = "marshaled"
  /\ UNCHANGED <<wrote, uerr, entryCount, looped, buf2, err2, str>>
  /\ UNCHANGED codecVars

\* n, err = p.MarshalTo(buf) for a REMB and a caller's buffer one word
\* short of, exactly of, or one word beyond MarshalSize
MarshalTo ==
  /\ pc = "start"
  /\ \E pk \in Packets("REMB") : \E d \in {-4, 0, 4} :
       LET r == REMB_MarshalTo(pk, AsSeq(REMB_MarshalSize(pk) + d, [i \in 1..(REMB_MarshalSize(pk) + d) |-> 170]))
       IN /\ kind' = "REMB"
          /\ p' = Stored("REMB", pk)
          /\ buf' = Pages(r.buf)
          /\ err' = r.err
          /\ wrote' = r.n
  /\ pc' = "marshaledTo"
  /\ UNCHANGED <<q, uerr, entryCount, looped, buf2, err2, str>>
  /\ UNCHANGED codecVars

\* the Unmarshal call shared by Unmarshal and UnmarshalRaw
DoUnmarshal(k, b) ==
  LET r == UnmarshalOf(k, ZeroPacket(k), b)
  IN /\ q' = Stored(k, r.pkt)
     /\ uerr' = r.err
     /\ entryCount' = r.entryCount
     /\ looped' = r.loop

\* uerr = q.Unmarshal(buf) of the bytes Marshal returned
Unmarshal ==
  /\ pc = "marshaled"
  /\ err = "nil"
  /\ DoUnmarshal(kind, Flat(buf))
  /\ pc' = "unmarshaled"
  /\ UNCHANGED <<kind, p, buf, err, wrote, buf2, err2, str>>
  /\ UNCHANGED codecVars

\* uerr = q.Unmarshal(b) of bytes off the wire
UnmarshalRaw ==
  /\ pc = "start"
  /\ \E k \in Kinds : \E b \in RawBuffers :
       /\ kind' = k
       /\ p' = ZeroPacket(k)
       /\ buf' = Pages(b)
       /\ DoUnmarshal(k, b)
  /\ pc' = "unmarshaledRaw"
  /\ UNCHANGED <<err, wrote, buf2, err2, str>>
  /\ UNCHANGED codecVars

\* buf2, err2 = q.Marshal() of the packet Unmarshal produced
ReMarshal ==
  /\ pc \in {"unmarshaled", "unmarshaledRaw"}
  /\ uerr = "nil"
  /\ buf2' = Pages(MarshalOf(kind, Loaded(kind, q)).buf)
  /\ err2' = MarshalOf(kind, Loaded(kind, q)).err
  /\ pc' = IF pc = "unmarshaled" THEN "remarshaled" ELSE "remarshaledRaw"
  /\ UNCHANGED <<kind, p, buf, err, wrote, q, uerr, entryCount, looped, str>>
  /\ UNCHANGED codecVars

\* str = q.String() of the packet Unmarshal produced
String ==
  /\ pc \in {"unmarshaled", "unmarshaledRaw"}
  /\ uerr = "nil"
  /\ str' = StringOf(kind, Loaded(kind, q))
  /\ pc' = "string"
  /\ UNCHANGED <<kind, p, buf, err, wrote, q, uerr, entryCount, looped, buf2, err2>>
  /\ UNCHANGED codecVars

Next ==
  \/ PutBitrate
  \/ LoadBitrate
  \/ LoadWire
  \/ RePutBitrate
  \/ BitrateUnit
  \/ BitrateUnitDecoded
  \/ Marshal
  \/ MarshalTo
  \/ Unmarshal
  \/ UnmarshalRaw
  \/ ReMarshal
  \/ String

Spec == Init /\ [][Next]_vars

\* the same calls, and Marshal of very long lists
NextLarge == Next \/ MarshalLarge

SpecLarge == Init /\ [][NextLarge]_vars

(***************************************************************************)
(* Vocabulary of the properties                                            *)
(***************************************************************************)
MaxFloat32 == F32(0, 254, 8388607)

\* a finite non-negative float is Mant * 2^Xp
Mant(v) == IF v.e = 0 THEN v.f ELSE 8388608 + v.f
Xp(v) == IF v.e = 0 THEN 0 - 149 ELSE v.e - 150

\* v - d < 2^k, for finite floats 0 <= d <= v, in exact arithmetic.
\* With s = Xp(v) - Xp(d) >= 0 and t = k - Xp(v) this is
\*   Mant(v) - Mant(d) / 2^s < 2^t.
GapBelowPow2(v, d, k) ==
  LET s == Xp(v) - Xp(d)
      t == k - Xp(v)
  IN IF t >= 24 THEN TRUE
     ELSE IF t >= 0 THEN
       LET D == Mant(v) - Pow2(t)
       IN \/ D < 0
          \/ /\ Mant(d) > 0
             /\ IF s >= 24 THEN D = 0 ELSE D =< (Mant(d) - 1) \div Pow2(s)
     ELSE s = 0 /\ Mant(v) = Mant(d)

\* the packets and buffers of the current state
P == Loaded(kind, p)
Q == Loaded(kind, q)
Buf == Flat(buf)
Buf2 == Flat(buf2)

HasNegative(k, pk) ==
  IF k = "REMB" THEN IsNegative(pk.Bitrate)
  ELSE \E i \in 1..Len(pk.Entries) : IsNegative(pk.Entries[i].Bitrate)

(***************************************************************************)
(* C1 (as stated): every REMB packet with at most 255 SSRCs and every      *)
(* TMMBR/TMMBN packet, with non-negative bitrates, marshals successfully,  *)
(* and Unmarshal of the bytes succeeds and reproduces the sender SSRC, the *)
(* number of list elements and every SSRC in order.                        *)
(***************************************************************************)
RoundTrips ==
  /\ err = "nil"
  /\ pc = "unmarshaled" =>
       /\ uerr = "nil"
       /\ Q.SenderSSRC = P.SenderSSRC
       /\ Count(kind, Q) = Count(kind, P)
       /\ DestinationSSRC(kind, Q) = DestinationSSRC(kind, P)

C1_RoundTripAnyLength ==
  (/\ pc \in {"marshaled", "unmarshaled"}
   /\ kind = "REMB" => Len(P.SSRCs) =< 255
   /\ ~HasNegative(kind, P))
  => RoundTrips

(***************************************************************************)
(* C1 (amended): the same for every REMB packet with at most 255 SSRCs and *)
(* every TMMBR/TMMBN packet with at most 32767 entries.                    *)
(***************************************************************************)
C1_RoundTrip ==
  (/\ pc \in {"marshaled", "unmarshaled"}
   /\ kind = "REMB" => Len(P.SSRCs) =< 255
   /\ kind # "REMB" => Len(P.Entries) =< 32767
   /\ ~HasNegative(kind, P))
  => RoundTrips

C1_Witness ==
  /\ pc = "unmarshaled"
  /\ kind = "TMMBN"
  /\ Len(P.Entries) = 32767
  /\ uerr = "nil"
  /\ Len(Q.Entries) = 32767
  /\ Q.Entries[32767].MediaSSRC = P.Entries[32767].MediaSSRC

(***************************************************************************)
(* C2: for every non-negative bitrate v below the ceiling 0x3FFFF * 2^63,  *)
(* zero and values below 1 included, loadBitrate(putBitrate(v)) <= v and   *)
(* v - loadBitrate(putBitrate(v)) < 2^exponent, for the exponent           *)
(* putBitrate chose.                                                       *)
(***************************************************************************)
C2_QuantizationNeverIncreases ==
  (/\ pc = "loaded"
   /\ ~IsNegative(bitrate)
   /\ FloatLT(bitrate, bitratemax))
  => /\ FloatLE(decoded, bitrate)
     /\ GapBelowPow2(bitrate, decoded, putExp(bitrate))

(***************************************************************************)
(* C3: TMMBR.Unmarshal and TMMBN.Unmarshal never read outside the buffer:  *)
(* whenever the entry loop is reached,                                     *)
(* headerLength + 8 + 8 * entryCount <= len(rawPacket), and no panic.      *)
(***************************************************************************)
C3_UnmarshalStaysInBounds ==
  (/\ pc \in {"unmarshaled", "unmarshaledRaw"}
   /\ kind \in {"TMMBR", "TMMBN"})
  => /\ uerr # panic
     /\ looped => headerLength + 8 + 8 * entryCount =< Len(Buf)

(***************************************************************************)
(* C4: REMB Marshal fails when there are more than 255 destination SSRCs;  *)
(* it never succeeds with a count byte that differs from the number of     *)
(* SSRCs written.                                                          *)
(***************************************************************************)
C4_CountFitsOrFails ==
  (/\ pc \in {"marshaled", "marshaledTo"}
   /\ kind = "REMB")
  => /\ Len(P.SSRCs) > 255 => err # "nil"
     /\ err = "nil" => Buf[17] = Len(P.SSRCs)

(***************************************************************************)
(* C5: for every bitrate v >= 0x3FFFF * 2^63 putBitrate succeeds and       *)
(* writes {0xFF, 0xFF, 0xFF}; loadBitrate of these bytes is the float with *)
(* bit pattern 0x67FFFFC0, and encoding that float again writes the same   *)
(* three bytes.                                                            *)
(***************************************************************************)
C5_Saturation ==
  (/\ pc \in {"put", "loaded", "reput"}
   /\ FloatGE(bitrate, bitratemax))
  => /\ perr = "nil"
     /\ dst = <<255, 255, 255>>
     /\ pc \in {"loaded", "reput"} => decoded = F32(0, 207, 8388544)
     /\ pc = "reput" => redst = [err |-> "nil", buf |-> <<255, 255, 255>>]

C5_Witness ==
  /\ pc = "reput"
  /\ bitrate = MaxFloat32
  /\ dst = <<255, 255, 255>>
  /\ redst.buf = <<255, 255, 255>>

(***************************************************************************)
(* C6: encoding a negative bitrate fails with InvalidBitrate and produces  *)
(* no bytes: putBitrate leaves its destination unchanged, and Marshal of a *)
(* packet with a negative bitrate in any position returns the error and no *)
(* byte slice.                                                             *)
(***************************************************************************)
C6_NegativeRejected ==
  /\ (pc = "put" /\ IsNegative(bitrate)) =>
       (perr = errInvalidBitrate /\ dst = DstInit)
  /\ (pc = "marshaled" /\ HasNegative(kind, P)) =>
       (err = errInvalidBitrate /\ Buf = <<>>)

C6_Witness ==
  /\ pc = "marshaled"
  /\ kind = "TMMBR"
  /\ Len(P.Entries) = 2
  /\ ~IsNegative(P.Entries[1].Bitrate)
  /\ IsNegative(P.Entries[2].Bitrate)
  /\ err = errInvalidBitrate

(***************************************************************************)
(* C7 (as stated): for every REMB, TMMBR and TMMBN packet, MarshalSize()   *)
(* is a positive multiple of 4 (20 + 4 * SSRC count, 12 + 8 * entry        *)
(* count), Header().Length = MarshalSize()/4 - 1, and a successful Marshal *)
(* returns exactly MarshalSize() bytes whose 16-bit length field L has     *)
(* (L + 1) * 4 = MarshalSize().                                            *)
(***************************************************************************)
SizesAgree ==
  /\ MarshalSize(kind, P) > 0
  /\ MarshalSize(kind, P) % 4 = 0
  /\ MarshalSize(kind, P) =
       IF kind = "REMB" THEN 20 + 4 * Len(P.SSRCs) ELSE 12 + 8 * Len(P.Entries)
  /\ Header(kind, P).Length = (MarshalSize(kind, P) \div 4) - 1
  /\ err = "nil" =>
       /\ Len(Buf) = MarshalSize(kind, P)
       /\ (Uint16(Buf, 2) + 1) * 4 = MarshalSize(kind, P)

C7_SizesAgreeAnyLength == pc = "marshaled" => SizesAgree

(***************************************************************************)
(* C7 (amended): the same for every REMB packet with at most 65531 SSRCs   *)
(* and every TMMBR/TMMBN packet with at most 32766 entries, i.e. whenever  *)
(* MarshalSize()/4 - 1 fits the 16-bit length field.                       *)
(***************************************************************************)
C7_SizesAgree ==
  (/\ pc = "marshaled"
   /\ kind = "REMB" => Len(P.SSRCs) =< 65531
   /\ kind # "REMB" => Len(P.Entries) =< 32766)
  => SizesAgree

C7_Witness ==
  /\ pc = "marshaled"
  /\ kind = "TMMBR"
  /\ Len(P.Entries) = 32766
  /\ err = "nil"
  /\ Len(Buf) = 262140
  /\ Uint16(Buf, 2) = 65534

(***************************************************************************)
(* C8: for every packet p whose Marshal succeeds (any non-negative         *)
(* bitrates, 0 included), unmarshaling Marshal(p) into q and marshaling q  *)
(* yields exactly the bytes of Marshal(p).                                 *)
(***************************************************************************)
C8_ReMarshalStable ==
  pc = "remarshaled" => (err2 = "nil" /\ Buf2 = Buf)

(***************************************************************************)
(* C9: for every buffer TMMBR/TMMBN Unmarshal accepts, the packet has      *)
(* entryCount entries with 2 + 2 * entryCount equal to the buffer's header *)
(* length field, so Header().Length of the packet equals the length field  *)
(* that was unmarshaled.                                                   *)
(***************************************************************************)
C9_LengthMatchesEntries ==
  (/\ pc \in {"unmarshaled", "unmarshaledRaw"}
   /\ kind \in {"TMMBR", "TMMBN"}
   /\ uerr = "nil")
  => /\ Len(Q.Entries) = entryCount
     /\ 2 + 2 * entryCount = Uint16(Buf, 2)
     /\ Header(kind, Q).Length = Uint16(Buf, 2)

(***************************************************************************)
(* C10: bitrateUnit returns one of b, Kb, Mb, Gb, Tb, Pb, Eb for every     *)
(* non-negative bitrate, including every value loadBitrate can produce up  *)
(* to 0x3FFFF * 2^63, so String of the three packet types never leaves the *)
(* seven-entry table.                                                      *)
(***************************************************************************)
C10_UnitInTable ==
  /\ pc \in {"unit", "unitDecoded"} => unit \in {bitUnits[i] : i \in 1..Len(bitUnits)}
  /\ pc = "string" => str # panic

(***************************************************************************)
(* C11: for every buffer REMB Unmarshal accepts, with L the 16-bit length  *)
(* field and num the SSRC count byte: L = 4 + num,                         *)
(* (L + 1) * 4 = 20 + 4 * num <= len(buf), and exactly num SSRCs are read, *)
(* every one of them from inside the buffer.                               *)
(***************************************************************************)
C11_SizeConsistent ==
  (/\ pc \in {"unmarshaled", "unmarshaledRaw"}
   /\ kind = "REMB"
   /\ uerr = "nil")
  => LET L == Uint16(Buf, 2)
         num == Buf[17]
     IN /\ L = 4 + num
        /\ (L + 1) * 4 = 20 + 4 * num
        /\ 20 + 4 * num =< Len(Buf)
        /\ Len(Q.SSRCs) = num
        /\ entryCount = num
        /\ 20 + 4 * entryCount =< Len(Buf)

(***************************************************************************)
(* C12: REMB Unmarshal applies its checks in a fixed order and reports the *)
(* first that fails: buffer < 20 bytes (PacketTooShort), version != 2      *)
(* (BadVersion), padding != 0 (WrongPadding), format != 15                 *)
(* (WrongFeedbackType), payload type != 206 (WrongPayloadType), derived    *)
(* size < 20 (HeaderTooSmall), buffer shorter than the size                *)
(* (PacketTooShort), media field != 0 (SSRCMustBeZero), identifier !=      *)
(* 'REMB' (MissingREMBIdentifier), size != 20 + 4 * num                    *)
(* (SSRCNumAndLengthMismatch).  A buffer violating several rules yields    *)
(* the error of the earliest one and a buffer violating none is accepted.  *)
(* The derived size is the value the 16-bit length field yields in 16-bit  *)
(* arithmetic.  Rule i of a buffer of fewer than 20 bytes is its first     *)
(* rule only, the later ones read bytes it may not have.                   *)
(***************************************************************************)
RembDerivedSize(b) == (((Uint16(b, 2) + 1) % 65536) * 4) % 65536

RembRuleError ==
  <<errPacketTooShort, errBadVersion, errWrongPadding, errWrongFeedbackType,
    errWrongPayloadType, errHeaderTooSmall, errPacketTooShort, errSSRCMustBeZero,
    errMissingREMBidentifier, errSSRCNumAndLengthMismatch>>

RembViolates(b, i) ==
  IF i = 1 THEN Len(b) < 20
  ELSE IF Len(b) < 20 THEN FALSE
  ELSE IF i = 2 THEN b[1] \div 64 # 2
  ELSE IF i = 3 THEN (b[1] \div 32) % 2 # 0
  ELSE IF i = 4 THEN b[1] % 32 # 15
  ELSE IF i = 5 THEN b[2] # 206
  ELSE IF i = 6 THEN RembDerivedSize(b) < 20
  ELSE IF i = 7 THEN Len(b) < RembDerivedSize(b)
  ELSE IF i = 8 THEN <<b[9], b[10], b[11], b[12]>> # <<0, 0, 0, 0>>
  ELSE IF i = 9 THEN <<b[13], b[14], b[15], b[16]>> # <<82, 69, 77, 66>>
  ELSE RembDerivedSize(b) # 20 + 4 * b[17]

RembViolated(b) == {i \in 1..Len(RembRuleError) : RembViolates(b, i)}

ClampedToMax(v) == IF FloatGE(v, bitratemax) THEN bitratemax ELSE v

\* floor(v / 2^e) for a finite v >= 0, capped at 2^18 when it is 2^18 or more
FloorScaled(v, e) ==
  LET k == Xp(v) - e
  IN IF Mant(v) = 0 THEN 0
     ELSE IF k >= 0
       THEN (IF k >= 18 \/ Mant(v) >= Pow2(18 - k) THEN 262144 ELSE Mant(v) * Pow2(k))
     ELSE IF 0 - k > 24 THEN 0
     ELSE (IF Mant(v) \div Pow2(0 - k) >= 262144 THEN 262144 ELSE Mant(v) \div Pow2(0 - k))

\* v / 2^e < 2^18
FitsMantissa(v, e) == FloorScaled(v, e) < 262144

ExactEncoding(v, bytes) ==
  \E e \in 0..63 :
    /\ FitsMantissa(v, e)
    /\ \A e2 \in 0..(e - 1) : ~FitsMantissa(v, e2)
    /\ LET m == FloorScaled(v, e)
       IN bytes = <<e * 4 + (m \div 65536), (m \div 256) % 256, m % 256>>

C13_ExactEncoding ==
  /\ (pc = "put" /\ ~IsNegative(bitrate))
       => (perr = "nil" /\ ExactEncoding(ClampedToMax(bitrate), dst))
  /\ (pc = "put" /\ bitrate = F32(0, 150, 538560)) => dst = <<24 + 2, 32, 223>>
  /\ (pc = "put" /\ bitrate = F32(0, 150, 538559)) => dst = <<24 + 2, 32, 222>>

\* a bitrate with a fractional part below 2^18 and one that needs the largest
\* exponent have been encoded
C13_Witness ==
  /\ pc = "put"
  /\ perr = "nil"
  /\ \/ bitrate = F32(0, 144, 8388607) /\ dst = <<3, 255, 255>>
     \/ bitrate = bitratemax /\ dst = <<255, 255, 255>>

(***************************************************************************)
(* C14: for every 3-byte input with 6-bit exponent e and 18-bit mantissa   *)
(* m, loadBitrate terminates without overflowing its 8-bit exponent        *)
(* arithmetic and returns exactly m * 2^e when m != 0 (m is shifted left   *)
(* until bit 23 is set and the biased exponent e + 150 is decremented at   *)
(* each step); when m = 0 it returns the float whose bit pattern is        *)
(* (e + 150) << 23 with a zero fraction, i.e. 2^(e + 23); bytes            *)
(* {188, 0, 0} decode to the bit pattern 0x62800000.                       *)
(***************************************************************************)
WireExp(b) == b[1] \div 4
WireMantissa(b) == (b[1] % 4) * 65536 + b[2] * 256 + b[3]

\* the number of left shifts that bring bit 23 of m to the top, m in 1..2^18-1
RECURSIVE ShiftsToBit23(_)
ShiftsToBit23(m) == IF m >= 8388608 THEN 0 ELSE 1 + ShiftsToBit23(2 * m)

ExactDecoding(b, d) ==
  LET e == WireExp(b)
      m == WireMantissa(b)
  IN /\ d.s = 0
     /\ e + 150 =< 255
     /\ IF m = 0
          THEN d.e = e + 150 /\ d.f = 0 /\ d.e - 127 = e + 23
          ELSE LET k == ShiftsToBit23(m)
               IN /\ e + 150 - k >= 1
                  /\ d.e = e + 150 - k
                  /\ Xp(d) = e - k
                  /\ Mant(d) = m * Pow2(k)

C14_ExactDecoding ==
  /\ pc \in {"loadedWire", "loaded"} => ExactDecoding(dst, decoded)
  /\ (pc = "loadedWire" /\ dst = <<188, 0, 0>>) => decoded = F32(0, 197, 0)

\* both cases have been decoded: bytes {188,0,0} with a zero mantissa, and
\* the test bytes {26,32,223} to 8927168
C14_Witness ==
  /\ pc = "loadedWire"
  /\ \/ dst = <<188, 0, 0>> /\ decoded = F32(0, 197, 0)
     \/ dst = <<26, 32, 223>> /\ decoded = F32(0, 150, 538560)

====
